---- MODULE Spec2Model ----
(***************************************************************************)
(* EconomicAIAgent: the per-step action resolution of Agent.decide_and_act *)
(* (src/agent.py), the two-phase trading protocol of process_trading_phase *)
(* and Market (src/trading.py) and the step loop of main (src/main.py).    *)
(***************************************************************************)
EXTENDS Integers, Sequences, FiniteSets, TLC

(***************************************************************************)
(* Run configuration.  config.py is not part of the sources at hand; the   *)
(* values below are the ones this development checks.                      *)
(***************************************************************************)
NUM_AGENTS == 3
GRID_SIZE == 2
CONSUMPTION_RATE == 1
INITIAL_ENERGY == 2
ENERGY_LOSS_PER_TURN == 1
INITIAL_RED == 1
INITIAL_GREEN == 1
AGENT_MEMORY_SIZE == 1
REPLENISH_INTERVAL == 2
\* the main loop runs steps 1..TOTAL_STEPS
TOTAL_STEPS == 3
\* trade ranges a run may be configured with: 0..MaxTradeRange
MaxTradeRange == 1
\* the most of a resource an agent holds when a trading phase checked on its
\* own starts
MaxHolding == 1
\* add_memory is checked for the capacities 0..MaxCapacity and up to MaxEntries
\* appended entries per agent
MaxCapacity == 2
MaxEntries == 4

Coords == 0..(GRID_SIZE - 1)
Cells == Coords \X Coords

Max(a, b) == IF a >= b THEN a ELSE b
Min(a, b) == IF a <= b THEN a ELSE b
Abs(n) == IF n < 0 THEN 0 - n ELSE n

\* base_configs of main.py, cycled over the roster and scaled
base_configs ==
  << [red |-> 4, green |-> 0], [red |-> 3, green |-> 1], [red |-> 2, green |-> 2],
     [red |-> 1, green |-> 3], [red |-> 0, green |-> 4] >>

consumption_rates(a) ==
  LET b == base_configs[((a - 1) % Len(base_configs)) + 1]
  IN  [red |-> b.red * CONSUMPTION_RATE, green |-> b.green * CONSUMPTION_RATE]

VARIABLES
  rand_mode,          \* config.RAND_MODE of the run
  trade_range,        \* config.TRADE_RANGE of the run
  memory_size,        \* config.AGENT_MEMORY_SIZE of the run
  num_agents,         \* config.NUM_AGENTS of the run
  position,           \* Agent.position, per agent
  inventory,          \* Agent.inventory, per agent
  energy,             \* Agent.energy, per agent
  alive,              \* Agent.alive, per agent
  step_count,         \* Agent.step_count, per agent
  memory,             \* Agent.memory, per agent
  grid,               \* Environment cells: "red", "green" or "empty"
  offers,             \* Market.offers
  completed_trades,   \* Market.completed_trades
  agents_with_offers, \* the shuffled worklist of Phase 2
  trading_events,     \* the events of the current trading phase
  inventory_at_phase_start, \* history: the inventories process_trading_phase began with
  step,               \* loop variable of main
  idx,                \* roster index of the agent the running loop is at
  pc,                 \* where main is
  last                \* the latest decide_and_act call: what was asked and returned

vars == << rand_mode, trade_range, memory_size, num_agents, position, inventory, energy, alive,
           step_count, memory, grid, offers, completed_trades,
           agents_with_offers, trading_events, inventory_at_phase_start, step, idx,
           pc, last >>

agentVars == << position, inventory, energy, alive, step_count, memory >>
marketVars == << offers, completed_trades, agents_with_offers, trading_events,
                inventory_at_phase_start >>
configVars == << rand_mode, trade_range, memory_size, num_agents >>

\* the roster main builds: agents 1..NUM_AGENTS of the run
Agents == 1..num_agents

(***************************************************************************)
(* Action strings.  A string is modelled by the sequence of its words, so  *)
(* that action.split()[1] and the comparisons with the literals of         *)
(* decide_and_act are computed, not assumed.  The empty sequence is the    *)
(* empty or absent (None) answer of the DecisionPolicy.                    *)
(***************************************************************************)
Directions == {"up", "down", "left", "right"}

Grammar ==
  { <<"move", "up">>, <<"move", "down">>, <<"move", "left">>, <<"move", "right">>,
    <<"collect">>, <<"eat", "red">>, <<"eat", "green">>, <<"do", "nothing">> }

\* what get_agent_action may answer: the grammar, nothing, and malformed strings
Responses ==
  Grammar \cup
  { <<>>, <<"move">>, <<"move", "north">>, <<"move", "up", "now">>,
    <<"movement", "down">>, <<"dance">> }

\* the words of Responses that have the prefix "move"
WordsWithPrefixMove == {"move", "movement"}

\* action.startswith("move")
startswith_move(action) == Len(action) >= 1 /\ action[1] \in WordsWithPrefixMove

\* get_agent_action(...) or "do nothing"
or_identity(response) == response
or_do_nothing(response) == IF response = <<>> THEN <<"do", "nothing">> ELSE response

\* the dictionary of target cells built for a move, clamped to the grid
new_pos(direction, p) ==
  CASE direction = "up"    -> << Max(0, p[1] - 1), p[2] >>
    [] direction = "down"  -> << Min(GRID_SIZE - 1, p[1] + 1), p[2] >>
    [] direction = "left"  -> << p[1], Max(0, p[2] - 1) >>
    [] direction = "right" -> << p[1], Min(GRID_SIZE - 1, p[2] + 1) >>

\* occupied = {a.position for a in all_agents if a.alive and a is not self}
occupied(a) == { position[b] : b \in { c \in Agents : alive[c] /\ c # a } }

\* new_pos not in occupied and new_pos != self.position
move_ignoring_occupied(np, occ, p) == np # p
move_allowed_into_wall(np, occ, p) == np \notin occ
move_allowed(np, occ, p) == np \notin occ /\ np # p

\* self.memory after add_memory appended entry, with capacity n:
\* Python's memory[-n:] is the last n entries for n > 0 and the whole list for n = 0
add_memory(mem, entry, n) ==
  LET m == Append(mem, entry)
      first == IF n = 0 THEN 1 ELSE Max(1, Len(m) - n + 1)
  IN  IF Len(m) > n THEN SubSeq(m, first, Len(m)) ELSE m

\* the entry add_memory formats: "Step {step_count}: Action: ... | Outcome: ...".
\* An entry is identified by the step counter it begins with; the rest of its
\* text is not kept.  decide_and_act has already incremented step_count.
Entry(a) == [step |-> step_count[a] + 1]

(***************************************************************************)
(* One pass through the body of the loop of decide_and_act for agent a     *)
(* with energy e (already reduced) and the action string `action`.         *)
(* raised names the exception the body throws, if any.                     *)
(***************************************************************************)
attempt_eat_green_as_red(a, action, e) ==
  LET p == position[a]
      inv == inventory[a]
      rates == consumption_rates(a)
      base == [position |-> p, inventory |-> inv, energy |-> e, cell |-> grid[p],
               result |-> "none", retry |-> "none", raised |-> "none"]
  IN  IF startswith_move(action) THEN
        IF Len(action) < 2 THEN [base EXCEPT !.raised = "IndexError"]
        ELSE IF action[2] \notin Directions THEN [base EXCEPT !.raised = "KeyError"]
        ELSE IF move_allowed(new_pos(action[2], p), occupied(a), p)
             THEN [base EXCEPT !.position = new_pos(action[2], p), !.result = "moved"]
             ELSE [base EXCEPT !.retry = "blocked",
                               !.result = "move blocked: other agent or wall"]
      ELSE IF action = <<"collect">> THEN
        IF grid[p] \in {"red", "green"}
        THEN [base EXCEPT !.inventory[grid[p]] = @ + 1, !.cell = "empty",
                          !.result = "collected"]
        ELSE [base EXCEPT !.result = "nothing to collect"]
      ELSE IF action = <<"eat", "red">> /\ inv.red > 0 THEN
        [base EXCEPT !.inventory.red = @ - 1, !.energy = @ + rates.red,
                     !.result = "ate red"]
      ELSE IF action = <<"eat", "green">> /\ inv.green > 0 THEN
        [base EXCEPT !.inventory.green = @ - 1, !.energy = @ + rates.red,
                     !.result = "ate green"]
      ELSE IF action = <<"do", "nothing">> THEN [base EXCEPT !.result = "did nothing"]
      ELSE [base EXCEPT !.retry = "invalid", !.result = "failed to act"]
attempt_collect_keeps_cell(a, action, e) ==
  LET p == position[a]
      inv == inventory[a]
      rates == consumption_rates(a)
      base == [position |-> p, inventory |-> inv, energy |-> e, cell |-> grid[p],
               result |-> "none", retry |-> "none", raised |-> "none"]
  IN  IF startswith_move(action) THEN
        IF Len(action) < 2 THEN [base EXCEPT !.raised = "IndexError"]
        ELSE IF action[2] \notin Directions THEN [base EXCEPT !.raised = "KeyError"]
        ELSE IF move_allowed(new_pos(action[2], p), occupied(a), p)
             THEN [base EXCEPT !.position = new_pos(action[2], p), !.result = "moved"]
             ELSE [base EXCEPT !.retry = "blocked",
                               !.result = "move blocked: other agent or wall"]
      ELSE IF action = <<"collect">> THEN
        IF grid[p] \in {"red", "green"}
        THEN [base EXCEPT !.inventory[grid[p]] = @ + 1, !.result = "collected"]
        ELSE [base EXCEPT !.result = "nothing to collect"]
      ELSE IF action = <<"eat", "red">> /\ inv.red > 0 THEN
        [base EXCEPT !.inventory.red = @ - 1, !.energy = @ + rates.red,
                     !.result = "ate red"]
      ELSE IF action = <<"eat", "green">> /\ inv.green > 0 THEN
        [base EXCEPT !.inventory.green = @ - 1, !.energy = @ + rates.green,
                     !.result = "ate green"]
      ELSE IF action = <<"do", "nothing">> THEN [base EXCEPT !.result = "did nothing"]
      ELSE [base EXCEPT !.retry = "invalid", !.result = "failed to act"]
attempt_eat_without_stock(a, action, e) ==
  LET p == position[a]
      inv == inventory[a]
      rates == consumption_rates(a)
      base == [position |-> p, inventory |-> inv, energy |-> e, cell |-> grid[p],
               result |-> "none", retry |-> "none", raised |-> "none"]
  IN  IF startswith_move(action) THEN
        IF Len(action) < 2 THEN [base EXCEPT !.raised = "IndexError"]
        ELSE IF action[2] \notin Directions THEN [base EXCEPT !.raised = "KeyError"]
        ELSE IF move_allowed(new_pos(action[2], p), occupied(a), p)
             THEN [base EXCEPT !.position = new_pos(action[2], p), !.result = "moved"]
             ELSE [base EXCEPT !.retry = "blocked",
                               !.result = "move blocked: other agent or wall"]
      ELSE IF action = <<"collect">> THEN
        IF grid[p] \in {"red", "green"}
        THEN [base EXCEPT !.inventory[grid[p]] = @ + 1, !.cell = "empty",
                          !.result = "collected"]
        ELSE [base EXCEPT !.result = "nothing to collect"]
      ELSE IF action = <<"eat", "red">> /\ inv.red >= 0 THEN
        [base EXCEPT !.inventory.red = @ - 1, !.energy = @ + rates.red,
                     !.result = "ate red"]
      ELSE IF action = <<"eat", "green">> /\ inv.green > 0 THEN
        [base EXCEPT !.inventory.green = @ - 1, !.energy = @ + rates.green,
                     !.result = "ate green"]
      ELSE IF action = <<"do", "nothing">> THEN [base EXCEPT !.result = "did nothing"]
      ELSE [base EXCEPT !.retry = "invalid", !.result = "failed to act"]
attempt(a, action, e) ==
  LET p == position[a]
      inv == inventory[a]
      rates == consumption_rates(a)
      base == [position |-> p, inventory |-> inv, energy |-> e, cell |-> grid[p],
               result |-> "none", retry |-> "none", raised |-> "none"]
  IN  IF startswith_move(action) THEN
        IF Len(action) < 2 THEN [base EXCEPT !.raised = "IndexError"]
        ELSE IF action[2] \notin Directions THEN [base EXCEPT !.raised = "KeyError"]
        ELSE IF move_allowed(new_pos(action[2], p), occupied(a), p)
             THEN [base EXCEPT !.position = new_pos(action[2], p), !.result = "moved"]
             ELSE [base EXCEPT !.retry = "blocked",
                               !.result = "move blocked: other agent or wall"]
      ELSE IF action = <<"collect">> THEN
        IF grid[p] \in {"red", "green"}
        THEN [base EXCEPT !.inventory[grid[p]] = @ + 1, !.cell = "empty",
                          !.result = "collected"]
        ELSE [base EXCEPT !.result = "nothing to collect"]
      ELSE IF action = <<"eat", "red">> /\ inv.red > 0 THEN
        [base EXCEPT !.inventory.red = @ - 1, !.energy = @ + rates.red,
                     !.result = "ate red"]
      ELSE IF action = <<"eat", "green">> /\ inv.green > 0 THEN
        [base EXCEPT !.inventory.green = @ - 1, !.energy = @ + rates.green,
                     !.result = "ate green"]
      ELSE IF action = <<"do", "nothing">> THEN [base EXCEPT !.result = "did nothing"]
      ELSE [base EXCEPT !.retry = "invalid", !.result = "failed to act"]

\* the actions list _random_action draws from
random_actions(a) ==
  LET p == position[a] IN
  { <<"move", d>> : d \in { dd \in Directions :
                             move_allowed(new_pos(dd, p), occupied(a), p) } }
  \cup (IF grid[p] \in {"red", "green"} THEN { <<"collect">> } ELSE {})
  \cup (IF inventory[a].red > 0 THEN { <<"eat", "red">> } ELSE {})
  \cup (IF inventory[a].green > 0 THEN { <<"eat", "green">> } ELSE {})
  \cup { <<"do", "nothing">> }

\* the execution part of _random_action: no precondition is checked again
random_execute(a, action, e) ==
  LET p == position[a]
      inv == inventory[a]
      rates == consumption_rates(a)
      base == [position |-> p, inventory |-> inv, energy |-> e, cell |-> grid[p],
               result |-> "none", retry |-> "none", raised |-> "none"]
  IN  IF startswith_move(action) THEN
        [base EXCEPT !.position = new_pos(action[2], p), !.result = "moved"]
      ELSE IF action = <<"collect">> THEN
        [base EXCEPT !.inventory[grid[p]] = @ + 1, !.cell = "empty",
                     !.result = "collected"]
      ELSE IF action = <<"eat", "red">> THEN
        [base EXCEPT !.inventory.red = @ - 1, !.energy = @ + rates.red,
                     !.result = "ate red"]
      ELSE IF action = <<"eat", "green">> THEN
        [base EXCEPT !.inventory.green = @ - 1, !.energy = @ + rates.green,
                     !.result = "ate green"]
      ELSE [base EXCEPT !.result = "did nothing"]

(***************************************************************************)
(* Trading: TradeOffer, Market and the agents' negotiation decisions.      *)
(* A decision that draws at random is the set of the values it may return; *)
(* None is the empty sequence and an offer o is << o >>.                   *)
(***************************************************************************)
TradeOffer(offerer, target, offer_red, offer_green, request_red, request_green, s) ==
  [offerer |-> offerer, target |-> target, offer_red |-> offer_red,
   offer_green |-> offer_green, request_red |-> request_red,
   request_green |-> request_green, step |-> s]

calculate_manhattan_distance(pos1, pos2) ==
  Abs(pos1[1] - pos2[1]) + Abs(pos1[2] - pos2[2])

\* the living agents other than a within range of a
in_range_dead_or_alive(a, range) ==
  IF range <= 0 THEN {}
  ELSE { b \in Agents : /\ b # a
                        /\ calculate_manhattan_distance(position[a], position[b]) <= range }
in_range_at_any_distance(a, range) ==
  IF range <= 0 THEN {}
  ELSE { b \in Agents : alive[b] /\ b # a }
get_agents_in_trade_range(a, range) ==
  IF range <= 0 THEN {}
  ELSE { b \in Agents : /\ alive[b]
                        /\ b # a
                        /\ calculate_manhattan_distance(position[a], position[b]) <= range }

\* _random_trade_offer: a random 2-for-1 or 1-for-2 offer to a random neighbour
random_trade_offer(a, nearby_agents) ==
  LET total_red == inventory[a].red
      total_green == inventory[a].green
      offer_types ==
        (IF total_red >= 2 THEN { <<2, 0, 0, 1>> } ELSE {}) \cup
        (IF total_green >= 2 THEN { <<0, 2, 1, 0>> } ELSE {}) \cup
        (IF total_red >= 1 THEN { <<1, 0, 0, 2>> } ELSE {}) \cup
        (IF total_green >= 1 THEN { <<0, 1, 2, 0>> } ELSE {})
  IN  IF total_red < 1 /\ total_green < 1 THEN { <<>> }
      ELSE IF offer_types = {} THEN { <<>> }
      ELSE { << TradeOffer(a, t, ty[1], ty[2], ty[3], ty[4], step) >> :
               t \in nearby_agents, ty \in offer_types }

consider_trade_offer_unguarded(a, nearby_agents) ==
  LET inv == inventory[a]
      rates == consumption_rates(a)
  IN  IF trade_range <= 0 \/ nearby_agents = {} THEN { <<>> }
      ELSE IF rand_mode = 1 THEN random_trade_offer(a, nearby_agents)
      ELSE IF rates.red > rates.green THEN
        { << TradeOffer(a, t, 0, Min(1, inv.green), 1, 0, step) >> : t \in nearby_agents }
      ELSE IF rates.green > rates.red THEN
        { << TradeOffer(a, t, Min(1, inv.red), 0, 0, 1, step) >> : t \in nearby_agents }
      ELSE { <<>> }
consider_trade_offer_on_equal_rates(a, nearby_agents) ==
  LET inv == inventory[a]
      rates == consumption_rates(a)
  IN  IF trade_range <= 0 \/ nearby_agents = {} THEN { <<>> }
      ELSE IF rand_mode = 1 THEN random_trade_offer(a, nearby_agents)
      ELSE IF rates.red >= rates.green /\ inv.green > 0 THEN
        { << TradeOffer(a, t, 0, Min(1, inv.green), 1, 0, step) >> : t \in nearby_agents }
      ELSE IF rates.green > rates.red /\ inv.red > 0 THEN
        { << TradeOffer(a, t, Min(1, inv.red), 0, 0, 1, step) >> : t \in nearby_agents }
      ELSE { <<>> }
consider_trade_offer(a, nearby_agents) ==
  LET inv == inventory[a]
      rates == consumption_rates(a)
  IN  IF trade_range <= 0 \/ nearby_agents = {} THEN { <<>> }
      ELSE IF rand_mode = 1 THEN random_trade_offer(a, nearby_agents)
      ELSE IF rates.red > rates.green /\ inv.green > 0 THEN
        { << TradeOffer(a, t, 0, Min(1, inv.green), 1, 0, step) >> : t \in nearby_agents }
      ELSE IF rates.green > rates.red /\ inv.red > 0 THEN
        { << TradeOffer(a, t, Min(1, inv.red), 0, 0, 1, step) >> : t \in nearby_agents }
      ELSE { <<>> }

\* the receiver's inventory covers what the offer requests
covers(a, offer) ==
  inventory[a].red >= offer.request_red /\ inventory[a].green >= offer.request_green

\* the first offer of the list the standard rule returns, as a list index (0: none)
RECURSIVE first_covered(_, _, _)
RECURSIVE first_wanted(_, _, _)
first_covered(a, offs, i) ==
  IF i > Len(offs) THEN 0
  ELSE IF covers(a, offs[i]) THEN i
  ELSE first_covered(a, offs, i + 1)
first_wanted(a, offs, i) ==
  LET rates == consumption_rates(a) IN
  IF i > Len(offs) THEN 0
  ELSE IF covers(a, offs[i]) /\
          \/ (rates.red > rates.green /\ offs[i].offer_red > 0)
          \/ (rates.green > rates.red /\ offs[i].offer_green > 0)
          \/ rates.red = rates.green
       THEN i
       ELSE first_wanted(a, offs, i + 1)

consider_trade_acceptance(a, offs) ==
  IF offs = <<>> THEN { <<>> }
  ELSE IF rand_mode = 1 THEN
    \* each covered offer is returned with probability 1/2, else the next is tried
    { << offs[i] >> : i \in { j \in 1..Len(offs) : covers(a, offs[j]) } } \cup { <<>> }
  ELSE IF first_wanted(a, offs, 1) = 0 THEN { <<>> }
  ELSE { << offs[first_wanted(a, offs, 1)] >> }

\* Market.get_offers_for_agent
get_offers_for_agent(a) == SelectSeq(offers, LAMBDA o : o.target = a)

\* Market.remove_offer: list.remove drops the first equal element, if there is one
RECURSIVE remove_offer(_, _)
remove_offer(offs, offer) ==
  IF offs = <<>> THEN <<>>
  ELSE IF Head(offs) = offer THEN Tail(offs)
  ELSE << Head(offs) >> \o remove_offer(Tail(offs), offer)

RECURSIVE remove_all(_, _)
remove_all(offs, gone) ==
  IF gone = <<>> THEN offs
  ELSE remove_all(remove_offer(offs, Head(gone)), Tail(gone))

\* Market.execute_trade on the inventories inv: whether it traded, and the inventories
execute_trade_unchecked(offer, inv) ==
  LET inv1 == [inv EXCEPT ![offer.offerer] =
                 [red |-> @.red - offer.offer_red + offer.request_red,
                  green |-> @.green - offer.offer_green + offer.request_green]]
      inv2 == [inv1 EXCEPT ![offer.target] =
                 [red |-> @.red - offer.request_red + offer.offer_red,
                  green |-> @.green - offer.request_green + offer.offer_green]]
  IN  IF ~alive[offer.offerer] \/ ~alive[offer.target]
      THEN [success |-> FALSE, inventory |-> inv]
      ELSE [success |-> TRUE, inventory |-> inv2]
execute_trade_no_gain(offer, inv) ==
  LET inv1 == [inv EXCEPT ![offer.offerer] =
                 [red |-> @.red - offer.offer_red + offer.request_red,
                  green |-> @.green - offer.offer_green + offer.request_green]]
      inv2 == [inv1 EXCEPT ![offer.target] =
                 [red |-> @.red - offer.request_red,
                  green |-> @.green - offer.request_green]]
  IN  IF ~alive[offer.offerer] \/ ~alive[offer.target]
      THEN [success |-> FALSE, inventory |-> inv]
      ELSE IF /\ inv[offer.offerer].red >= offer.offer_red
              /\ inv[offer.offerer].green >= offer.offer_green
              /\ inv[offer.target].red >= offer.request_red
              /\ inv[offer.target].green >= offer.request_green
      THEN [success |-> TRUE, inventory |-> inv2]
      ELSE [success |-> FALSE, inventory |-> inv]
execute_trade_fails_after_exchange(offer, inv) ==
  LET inv1 == [inv EXCEPT ![offer.offerer] =
                 [red |-> @.red - offer.offer_red + offer.request_red,
                  green |-> @.green - offer.offer_green + offer.request_green]]
      inv2 == [inv1 EXCEPT ![offer.target] =
                 [red |-> @.red - offer.request_red + offer.offer_red,
                  green |-> @.green - offer.request_green + offer.offer_green]]
  IN  IF ~alive[offer.offerer] \/ ~alive[offer.target]
      THEN [success |-> FALSE, inventory |-> inv]
      ELSE IF /\ inv[offer.offerer].red >= offer.offer_red
              /\ inv[offer.offerer].green >= offer.offer_green
              /\ inv[offer.target].red >= offer.request_red
              /\ inv[offer.target].green >= offer.request_green
      THEN [success |-> TRUE, inventory |-> inv2]
      ELSE [success |-> FALSE, inventory |-> inv2]
execute_trade(offer, inv) ==
  LET inv1 == [inv EXCEPT ![offer.offerer] =
                 [red |-> @.red - offer.offer_red + offer.request_red,
                  green |-> @.green - offer.offer_green + offer.request_green]]
      inv2 == [inv1 EXCEPT ![offer.target] =
                 [red |-> @.red - offer.request_red + offer.offer_red,
                  green |-> @.green - offer.request_green + offer.offer_green]]
  IN  IF ~alive[offer.offerer] \/ ~alive[offer.target]
      THEN [success |-> FALSE, inventory |-> inv]
      ELSE IF /\ inv[offer.offerer].red >= offer.offer_red
              /\ inv[offer.offerer].green >= offer.offer_green
              /\ inv[offer.target].red >= offer.request_red
              /\ inv[offer.target].green >= offer.request_green
      THEN [success |-> TRUE, inventory |-> inv2]
      ELSE [success |-> FALSE, inventory |-> inv]

\* the offers of the pending list that name a party of `accepted`
conflicting_offers_of_offerer(pending, accepted) ==
  SelectSeq(pending, LAMBDA o : \/ o.offerer = accepted.offerer
                                \/ o.target = accepted.offerer)
conflicting_offers(pending, accepted) ==
  SelectSeq(pending, LAMBDA o : \/ o.offerer = accepted.offerer
                                \/ o.target = accepted.offerer
                                \/ o.offerer = accepted.target
                                \/ o.target = accepted.target)

Event(kind, offer) == [kind |-> kind, offer |-> offer]

(***************************************************************************)
(* Environment (external to the sources at hand): the cells start with any *)
(* of the layouts below; fixed_replenish puts the given numbers of markers *)
(* on empty cells.                                                         *)
(***************************************************************************)
REPLENISH_RED_COUNT == 1
REPLENISH_GREEN_COUNT == 1

\* the layout the runs start from: one red and one green marker
InitialGrids ==
  { [c \in Cells |-> IF c = <<0, 0>> THEN "red"
                     ELSE IF c = <<GRID_SIZE - 1, 0>> THEN "green" ELSE "empty"] }

fixed_replenish(g, red_count, green_count) ==
  LET empty == { c \in Cells : g[c] = "empty" } IN
  { [c \in Cells |-> IF c \in R THEN "red" ELSE IF c \in G THEN "green" ELSE g[c]] :
      <<R, G>> \in { rg \in (SUBSET empty) \X (SUBSET empty) :
                       /\ rg[1] \cap rg[2] = {}
                       /\ Cardinality(rg[1]) = Min(red_count, Cardinality(empty))
                       /\ Cardinality(rg[2]) =
                            Min(green_count, Cardinality(empty \ rg[1])) } }

(***************************************************************************)
(* The state after construction (main, lines 108-121)                      *)
(***************************************************************************)
NoCall == [agent |-> 0, response |-> <<>>, action |-> <<>>, requests |-> 0,
           retry |-> "none", result |-> "none", raised |-> "none"]

\* generate_unique_positions: pairwise distinct cells
generate_unique_positions ==
  { f \in [Agents -> Cells] : \A a, b \in Agents : a # b => f[a] # f[b] }

\* the draws of generate_unique_positions the runs start from: the roster
\* laid out along the rows (the moves of the first steps lead to the other
\* arrangements)
InitialPositions ==
  { f \in generate_unique_positions :
      \A a \in Agents : f[a] = << (a - 1) \div GRID_SIZE, (a - 1) % GRID_SIZE >> }

Init ==
  /\ rand_mode \in {0, 1}
  /\ trade_range \in 0..MaxTradeRange
  /\ memory_size = AGENT_MEMORY_SIZE
  /\ num_agents = NUM_AGENTS
  /\ position \in InitialPositions
  /\ inventory = [a \in Agents |-> [red |-> INITIAL_RED, green |-> INITIAL_GREEN]]
  /\ energy = [a \in Agents |-> INITIAL_ENERGY]
  /\ alive = [a \in Agents |-> TRUE]
  /\ step_count = [a \in Agents |-> 0]
  /\ memory = [a \in Agents |-> <<>>]
  /\ grid \in InitialGrids
  /\ offers = <<>>
  /\ completed_trades = <<>>
  /\ agents_with_offers = <<>>
  /\ trading_events = <<>>
  /\ inventory_at_phase_start = <<>>
  /\ step = 1
  /\ idx = 1
  /\ pc = "act"
  /\ last = NoCall

(***************************************************************************)
(* The action phase: main's loop over the roster (lines 143-161)           *)
(***************************************************************************)
\* the loop moves on to the next agent, or to the trading phase after the last
NextAgent_before_the_last ==
  IF idx < num_agents - 1
  THEN idx' = idx + 1 /\ pc' = "act"
  ELSE idx' = 1 /\ pc' = "trade"
NextAgent ==
  IF idx < num_agents
  THEN idx' = idx + 1 /\ pc' = "act"
  ELSE idx' = 1 /\ pc' = "trade"

\* the state a completed decide_and_act leaves, r being what the action did
Resolved(a, action, r) ==
  /\ position' = [position EXCEPT ![a] = r.position]
  /\ inventory' = [inventory EXCEPT ![a] = r.inventory]
  /\ energy' = [energy EXCEPT ![a] = r.energy]
  /\ grid' = [grid EXCEPT ![position[a]] = r.cell]
  /\ memory' = [memory EXCEPT ![a] =
       add_memory(@, Entry(a), memory_size)]

\* main skips a dead agent ("inactive")
Inactive ==
  /\ pc = "act"
  /\ ~alive[idx]
  /\ last' = [NoCall EXCEPT !.agent = idx, !.result = "inactive"]
  /\ NextAgent
  /\ UNCHANGED << agentVars, grid, marketVars, configVars, step >>

\* decide_and_act, lines 96-102: the turn's energy loss kills the agent
RanOutOfEnergy_remembers ==
  /\ pc = "act"
  /\ alive[idx]
  /\ energy[idx] - ENERGY_LOSS_PER_TURN <= 0
  /\ step_count' = [step_count EXCEPT ![idx] = @ + 1]
  /\ energy' = [energy EXCEPT ![idx] = @ - ENERGY_LOSS_PER_TURN]
  /\ alive' = [alive EXCEPT ![idx] = FALSE]
  /\ last' = [NoCall EXCEPT !.agent = idx, !.result = "ran out of energy"]
  /\ NextAgent
  /\ memory' = [memory EXCEPT ![idx] = add_memory(@, Entry(idx), memory_size)]
  /\ UNCHANGED << position, inventory, grid, marketVars, configVars, step >>
RanOutOfEnergy_stays_alive ==
  /\ pc = "act"
  /\ alive[idx]
  /\ energy[idx] - ENERGY_LOSS_PER_TURN <= 0
  /\ step_count' = [step_count EXCEPT ![idx] = @ + 1]
  /\ energy' = [energy EXCEPT ![idx] = @ - ENERGY_LOSS_PER_TURN]
  /\ alive' = alive
  /\ last' = [NoCall EXCEPT !.agent = idx, !.result = "ran out of energy"]
  /\ NextAgent
  /\ UNCHANGED << position, inventory, memory, grid, marketVars, configVars, step >>
RanOutOfEnergy ==
  /\ pc = "act"
  /\ alive[idx]
  /\ energy[idx] - ENERGY_LOSS_PER_TURN <= 0
  /\ step_count' = [step_count EXCEPT ![idx] = @ + 1]
  /\ energy' = [energy EXCEPT ![idx] = @ - ENERGY_LOSS_PER_TURN]
  /\ alive' = [alive EXCEPT ![idx] = FALSE]
  /\ last' = [NoCall EXCEPT !.agent = idx, !.result = "ran out of energy"]
  /\ NextAgent
  /\ UNCHANGED << position, inventory, memory, grid, marketVars, configVars, step >>

\* decide_and_act in random mode: lines 111-112 and _random_action
RandomAction ==
  /\ pc = "act"
  /\ alive[idx]
  /\ energy[idx] - ENERGY_LOSS_PER_TURN > 0
  /\ rand_mode = 1
  /\ \E action \in random_actions(idx) :
       LET r == random_execute(idx, action, energy[idx] - ENERGY_LOSS_PER_TURN) IN
       /\ Resolved(idx, action, r)
       /\ last' = [NoCall EXCEPT !.agent = idx, !.action = action,
                                 !.result = r.result]
  /\ step_count' = [step_count EXCEPT ![idx] = @ + 1]
  /\ NextAgent
  /\ UNCHANGED << alive, marketVars, configVars, step >>

\* decide_and_act in standard mode, lines 117-181.  The return of line 181 is
\* inside the loop body, so the body runs once: one request, and the retry
\* hint a failed attempt sets is never passed on.  An exception of the body
\* leaves decide_and_act and main (nothing catches it).
PolicyAction ==
  /\ pc = "act"
  /\ alive[idx]
  /\ energy[idx] - ENERGY_LOSS_PER_TURN > 0
  /\ rand_mode # 1
  /\ step_count' = [step_count EXCEPT ![idx] = @ + 1]
  /\ \E response \in Responses :
       LET action == or_do_nothing(response)
           r == attempt(idx, action, energy[idx] - ENERGY_LOSS_PER_TURN)
       IN  /\ last' = [agent |-> idx, response |-> response, action |-> action,
                       requests |-> 1, retry |-> r.retry, result |-> r.result,
                       raised |-> r.raised]
           /\ IF r.raised # "none"
              THEN /\ energy' = [energy EXCEPT ![idx] = r.energy]
                   /\ pc' = "crashed"
                   /\ UNCHANGED << position, inventory, memory, grid, idx >>
              ELSE /\ Resolved(idx, action, r)
                   /\ NextAgent
  /\ UNCHANGED << alive, marketVars, configVars, step >>

(***************************************************************************)
(* The trading phase: main lines 163-173 and process_trading_phase         *)
(***************************************************************************)
\* trading is off: main does not call process_trading_phase
NoTrading ==
  /\ pc = "trade"
  /\ trade_range <= 0
  /\ pc' = "replenish"
  /\ last' = NoCall
  /\ UNCHANGED << agentVars, grid, marketVars, configVars, step, idx >>

\* process_trading_phase, lines 122-130
BeginTrading ==
  /\ pc = "trade"
  /\ trade_range > 0
  /\ trading_events' = <<>>
  /\ inventory_at_phase_start' = inventory
  /\ idx' = 1
  /\ pc' = "phase1"
  /\ last' = NoCall
  /\ UNCHANGED << agentVars, grid, offers, completed_trades, agents_with_offers,
                  configVars, step >>

\* Phase 1, the body of the loop of lines 132-143 for the agent at idx
MakeOffer ==
  /\ pc = "phase1"
  /\ LET nearby_agents == get_agents_in_trade_range(idx, trade_range) IN
     \E offer \in (IF alive[idx] /\ nearby_agents # {}
                   THEN consider_trade_offer(idx, nearby_agents)
                   ELSE { <<>> }) :
       /\ offers' = offers \o offer
       /\ trading_events' =
            trading_events \o
            (IF offer = <<>> THEN <<>> ELSE << Event("OFFER", offer[1]) >>)
  /\ IF idx < num_agents
     THEN idx' = idx + 1 /\ pc' = "phase1"
     ELSE idx' = 1 /\ pc' = "shuffle"
  /\ UNCHANGED << agentVars, grid, completed_trades, agents_with_offers,
                  inventory_at_phase_start, configVars, step, last >>

\* Phase 2, lines 148-157: the receivers and the offers each holds now, shuffled
Shuffle ==
  /\ pc = "shuffle"
  /\ LET receivers == { a \in Agents : alive[a] /\ get_offers_for_agent(a) # <<>> }
         n == Cardinality(receivers)
     IN  \E order \in { s \in [1..n -> receivers] :
                          \A i, j \in 1..n : i # j => s[i] # s[j] } :
           agents_with_offers' =
             [i \in 1..n |-> [agent |-> order[i],
                              offers |-> get_offers_for_agent(order[i])]]
  /\ pc' = "phase2"
  /\ UNCHANGED << agentVars, grid, offers, completed_trades, trading_events,
                  inventory_at_phase_start, configVars, step, idx, last >>

\* the events a list of offers gives, all of one kind
Events(kind, offs) == [i \in 1..Len(offs) |-> Event(kind, offs[i])]

\* Phase 2, the body of the loop of lines 159-189 for the next receiver
ProcessAcceptance_rejection_trades ==
  /\ pc = "phase2"
  /\ agents_with_offers # <<>>
  /\ LET agent == Head(agents_with_offers).agent
         offs == Head(agents_with_offers).offers
     IN  \E accepted_offer \in consider_trade_acceptance(agent, offs) :
           IF accepted_offer # <<>>
           THEN LET accepted == accepted_offer[1]
                    t == execute_trade(accepted, inventory)
                    pending == remove_offer(offers, accepted)
                    conflicts == conflicting_offers(pending, accepted)
                IN  IF t.success
                    THEN /\ inventory' = t.inventory
                         /\ completed_trades' = Append(completed_trades, accepted)
                         /\ offers' = remove_all(pending, conflicts)
                         /\ trading_events' =
                              trading_events \o << Event("ACCEPTED", accepted) >>
                                \o Events("CANCELLED", conflicts)
                    ELSE /\ inventory' = t.inventory
                         /\ offers' = pending
                         /\ trading_events' =
                              Append(trading_events, Event("FAILED", accepted))
                         /\ UNCHANGED completed_trades
           ELSE /\ offers' = remove_all(offers, offs)
                /\ trading_events' = trading_events \o Events("REJECTED", offs)
                /\ inventory' = execute_trade_unchecked(offs[1], inventory).inventory
                /\ UNCHANGED completed_trades
  /\ agents_with_offers' = Tail(agents_with_offers)
  /\ UNCHANGED << position, energy, alive, step_count, memory, grid, configVars,
                  inventory_at_phase_start, step, idx, pc, last >>
ProcessAcceptance ==
  /\ pc = "phase2"
  /\ agents_with_offers # <<>>
  /\ LET agent == Head(agents_with_offers).agent
         offs == Head(agents_with_offers).offers
     IN  \E accepted_offer \in consider_trade_acceptance(agent, offs) :
           IF accepted_offer # <<>>
           THEN LET accepted == accepted_offer[1]
                    t == execute_trade(accepted, inventory)
                    pending == remove_offer(offers, accepted)
                    conflicts == conflicting_offers(pending, accepted)
                IN  IF t.success
                    THEN /\ inventory' = t.inventory
                         /\ completed_trades' = Append(completed_trades, accepted)
                         /\ offers' = remove_all(pending, conflicts)
                         /\ trading_events' =
                              trading_events \o << Event("ACCEPTED", accepted) >>
                                \o Events("CANCELLED", conflicts)
                    ELSE /\ inventory' = t.inventory
                         /\ offers' = pending
                         /\ trading_events' =
                              Append(trading_events, Event("FAILED", accepted))
                         /\ UNCHANGED completed_trades
           ELSE /\ offers' = remove_all(offers, offs)
                /\ trading_events' = trading_events \o Events("REJECTED", offs)
                /\ UNCHANGED << inventory, completed_trades >>
  /\ agents_with_offers' = Tail(agents_with_offers)
  /\ UNCHANGED << position, energy, alive, step_count, memory, grid, configVars,
                  inventory_at_phase_start, step, idx, pc, last >>

\* lines 191-195: market.clear_offers() and return
EndTrading_keeps_offers ==
  /\ pc = "phase2"
  /\ agents_with_offers = <<>>
  /\ offers' = offers
  /\ pc' = "replenish"
  /\ UNCHANGED << agentVars, grid, completed_trades, agents_with_offers,
                  trading_events, inventory_at_phase_start, configVars, step, idx,
                  last >>
EndTrading ==
  /\ pc = "phase2"
  /\ agents_with_offers = <<>>
  /\ offers' = <<>>
  /\ pc' = "replenish"
  /\ UNCHANGED << agentVars, grid, completed_trades, agents_with_offers,
                  trading_events, inventory_at_phase_start, configVars, step, idx,
                  last >>

\* main, lines 175-182, and the next iteration of the step loop
EndStep ==
  /\ pc = "replenish"
  /\ grid' \in (IF step % REPLENISH_INTERVAL = 0
                THEN fixed_replenish(grid, REPLENISH_RED_COUNT, REPLENISH_GREEN_COUNT)
                ELSE { grid })
  /\ trading_events' = <<>>
  /\ inventory_at_phase_start' = <<>>
  /\ IF step < TOTAL_STEPS
     THEN step' = step + 1 /\ pc' = "act"
     ELSE step' = step /\ pc' = "done"
  /\ idx' = 1
  /\ UNCHANGED << agentVars, offers, completed_trades, agents_with_offers,
                  configVars, last >>

Next ==
  \/ Inactive
  \/ RanOutOfEnergy
  \/ RandomAction
  \/ PolicyAction
  \/ NoTrading
  \/ BeginTrading
  \/ MakeOffer
  \/ Shuffle
  \/ ProcessAcceptance
  \/ EndTrading
  \/ EndStep

Spec == Init /\ [][Next]_vars

(***************************************************************************)
(* One trading phase of the standard mode on its own: main calls           *)
(* process_trading_phase (lines 163-173) with a roster one agent larger,   *)
(* which brings in the first agent that prefers green, and with the        *)
(* positions and holdings earlier steps may have left.                     *)
(***************************************************************************)
\* what an agent may hold of each resource when the phase starts
Holdings == [red : 0..MaxHolding, green : 0..MaxHolding]

\* the arrangements of the roster when the phase starts: Agent1 in the corner
\* and Agent2 not below it (every other arrangement is one of these turned or
\* mirrored, which changes no distance)
TradingPositions ==
  { f \in generate_unique_positions : f[1] = <<0, 0>> /\ f[2] # <<1, 0>> }

InitTrading ==
  /\ rand_mode = 0
  /\ trade_range \in 1..MaxTradeRange
  /\ memory_size = AGENT_MEMORY_SIZE
  /\ num_agents = NUM_AGENTS + 1
  /\ position \in TradingPositions
  /\ inventory \in [Agents -> Holdings]
  /\ energy = [a \in Agents |-> INITIAL_ENERGY]
  /\ alive = [a \in Agents |-> TRUE]
  /\ step_count = [a \in Agents |-> 0]
  /\ memory = [a \in Agents |-> <<>>]
  /\ grid \in InitialGrids
  /\ offers = <<>>
  /\ completed_trades = <<>>
  /\ agents_with_offers = <<>>
  /\ trading_events = <<>>
  /\ inventory_at_phase_start = <<>>
  /\ step = 1
  /\ idx = 1
  /\ pc = "trade"
  /\ last = NoCall

NextTrading ==
  \/ BeginTrading
  \/ MakeOffer
  \/ Shuffle
  \/ ProcessAcceptance
  \/ EndTrading
  \/ EndStep

SpecTrading == InitTrading /\ [][NextTrading]_vars

(***************************************************************************)
(* add_memory on its own: any configured capacity, any number of calls.    *)
(* Each call is one of decide_and_act, which has counted the step before   *)
(* it formats the entry.                                                   *)
(***************************************************************************)
InitMemory ==
  /\ rand_mode = 0
  /\ trade_range = 0
  /\ memory_size \in 0..MaxCapacity
  /\ num_agents = NUM_AGENTS
  /\ position \in InitialPositions
  /\ inventory = [a \in Agents |-> [red |-> INITIAL_RED, green |-> INITIAL_GREEN]]
  /\ energy = [a \in Agents |-> INITIAL_ENERGY]
  /\ alive = [a \in Agents |-> TRUE]
  /\ step_count = [a \in Agents |-> 0]
  /\ memory = [a \in Agents |-> <<>>]
  /\ grid \in InitialGrids
  /\ offers = <<>>
  /\ completed_trades = <<>>
  /\ agents_with_offers = <<>>
  /\ trading_events = <<>>
  /\ inventory_at_phase_start = <<>>
  /\ step = 1
  /\ idx = 1
  /\ pc = "act"
  /\ last = NoCall

\* one more call of add_memory by some agent
AddMemory ==
  /\ \E a \in Agents :
       /\ step_count[a] < MaxEntries
       /\ step_count' = [step_count EXCEPT ![a] = @ + 1]
       /\ memory' = [memory EXCEPT ![a] = add_memory(@, Entry(a), memory_size)]
  /\ UNCHANGED << position, inventory, energy, alive, grid, marketVars, configVars,
                  step, idx, pc, last >>

NextMemory == AddMemory

SpecMemory == InitMemory /\ [][NextMemory]_vars

(***************************************************************************)
(* Properties                                                              *)
(***************************************************************************)
\* the executed trades of step s that name agent a as offerer or as target
TradesOf(a, s) ==
  { i \in 1..Len(completed_trades) :
      /\ completed_trades[i].step = s
      /\ a \in { completed_trades[i].offerer, completed_trades[i].target } }

\* C1: conflict invariant: in every trading phase each agent is offerer or
\* target of at most one trade that execute_trade executes.
C1_ConflictInvariant ==
  \A a \in Agents : \A s \in 1..TOTAL_STEPS : Cardinality(TradesOf(a, s)) <= 1

\* offer o is in the list offs
InList(o, offs) == \E i \in 1..Len(offs) : offs[i] = o

\* C2: a receiver's decision is taken over offers that are pending when the
\* receiver is processed, so no offer logged CANCELLED is afterwards accepted,
\* failed or rejected.
C2_DecidedOnPendingOffersOnly ==
  /\ (pc = "phase2" /\ agents_with_offers # <<>>) =>
       \A i \in 1..Len(Head(agents_with_offers).offers) :
         InList(Head(agents_with_offers).offers[i], offers)
  /\ \A i, j \in 1..Len(trading_events) :
       (/\ i < j
        /\ trading_events[i].kind = "CANCELLED"
        /\ trading_events[j].offer = trading_events[i].offer)
       => trading_events[j].kind \notin {"ACCEPTED", "FAILED", "REJECTED"}

\* C3: every agent's red and green counts are never negative.
C3_InventoryNonNegative ==
  \A a \in Agents : inventory[a].red >= 0 /\ inventory[a].green >= 0

\* a trade has been executed and left one of its parties with none of a resource
C3_Witness ==
  /\ completed_trades # <<>>
  /\ \E a \in Agents :
       /\ TradesOf(a, step) # {}
       /\ (inventory[a].red = 0 \/ inventory[a].green = 0)

\* C4: no two living agents stand on the same cell, during and after every
\* action phase.
C4_LivingAgentsApart ==
  \A a, b \in Agents :
    (a # b /\ alive[a] /\ alive[b]) => position[a] # position[b]

\* in step 1 an agent's move is blocked by an agent that acted before it in the
\* same step and stands on the target cell since that move
C4_Witness ==
  /\ step = 1
  /\ pc \in {"act", "trade"}
  /\ last.requests = 1
  /\ last.result = "move blocked: other agent or wall"
  /\ \E b \in Agents :
       /\ b < last.agent
       /\ alive[b]
       /\ position[b] = new_pos(last.action[2], position[last.agent])
       /\ \A f \in InitialPositions : position[b] # f[b]

\* what execute_trade makes of the example of the specification
ExampleTrade ==
  execute_trade(TradeOffer(1, 2, 0, 1, 1, 0, 1),
                [a \in Agents |-> IF a = 1 THEN [red |-> 0, green |-> 3]
                                  ELSE [red |-> 2, green |-> 0]])

\* C5: an executed trade takes the offered amounts from the offerer and the
\* requested amounts from the target and gives each to the other, so the two
\* parties' sum of each resource is unchanged (and nobody else's inventory moves).
C5_TradeConservation ==
  [][ /\ Len(completed_trades') > Len(completed_trades) =>
          LET o == completed_trades'[Len(completed_trades')]
              f == o.offerer
              t == o.target
          IN  /\ inventory'[f].red = inventory[f].red - o.offer_red + o.request_red
              /\ inventory'[f].green =
                   inventory[f].green - o.offer_green + o.request_green
              /\ inventory'[t].red = inventory[t].red - o.request_red + o.offer_red
              /\ inventory'[t].green =
                   inventory[t].green - o.request_green + o.offer_green
              /\ inventory'[f].red + inventory'[t].red =
                   inventory[f].red + inventory[t].red
              /\ inventory'[f].green + inventory'[t].green =
                   inventory[f].green + inventory[t].green
              /\ \A a \in Agents \ {f, t} : inventory'[a] = inventory[a]
      /\ (alive[1] /\ alive[2]) =>
          /\ ExampleTrade.success
          /\ ExampleTrade.inventory[1] = [red |-> 1, green |-> 2]
          /\ ExampleTrade.inventory[2] = [red |-> 1, green |-> 1]
    ]_vars

\* a one-green-for-one-red trade of the standard mode was executed
C5_Witness ==
  /\ rand_mode = 0
  /\ \E i \in 1..Len(completed_trades) :
       completed_trades[i].offer_green = 1 /\ completed_trades[i].request_red = 1

\* C6: the DecisionPolicy is asked twice in a step exactly when the first
\* attempt failed (blocked move or invalid action), and once otherwise.
C6_SecondRequestAfterFailure ==
  (last.requests >= 1) =>
    last.requests = (IF last.retry # "none" THEN 2 ELSE 1)

\* C7: whatever string the DecisionPolicy returns, decide_and_act returns an
\* outcome and raises nothing, so the loop of main goes on.
C7_NoFault == pc # "crashed" /\ last.raised = "none"

\* C8: an empty or absent answer is an invalid action: it sets a retry hint
\* and the outcome is "failed to act".
C8_EmptyAnswerIsInvalid ==
  (last.requests >= 1 /\ last.response = <<>>) =>
    (last.retry = "invalid" /\ last.result = "failed to act")

\* C8 as amended: an empty or absent answer is taken as `do nothing`: no retry
\* hint is set and the outcome is "did nothing".
C8_EmptyAnswerIsDoNothing ==
  (last.requests >= 1 /\ last.response = <<>>) =>
    /\ last.action = <<"do", "nothing">>
    /\ last.retry = "none"
    /\ last.result = "did nothing"
    /\ last.raised = "none"

\* the policy has just answered nothing
C8_Witness ==
  last.agent # 0 /\ last.requests = 1 /\ last.response = <<>>

\* C9: an action string outside the grammar is invalid: the step changes no
\* position, no inventory and no cell, and ends "failed to act".  (Stated for
\* the non-empty strings decide_and_act returns from; the empty answer is C8's
\* and the strings it raises on are C7's.)
C9_OutsideGrammarIsInvalid ==
  [][ (/\ last'.requests >= 1
       /\ step_count' # step_count
       /\ last'.response \notin Grammar
       /\ last'.response # <<>>
       /\ last'.raised = "none")
      => /\ position' = position
         /\ inventory' = inventory
         /\ grid' = grid
         /\ last'.result = "failed to act"
    ]_vars

\* what holds of the dead: they are not alive with energy left to lose, and
\* no pending offer, worklist entry or executed trade of this step names them
DeadAreOut ==
  /\ \A a \in Agents : energy[a] <= 0 => ~alive[a]
  /\ \A i \in 1..Len(offers) : alive[offers[i].offerer] /\ alive[offers[i].target]
  /\ \A i \in 1..Len(agents_with_offers) : alive[agents_with_offers[i].agent]
  /\ (last.agent # 0 /\ last.result # "inactive" /\ last.result # "ran out of energy")
       => alive[last.agent]

\* C10: an agent whose energy is <= 0 after the turn's loss is dead for good:
\* it is never asked for an action again, makes and receives no offer, is in
\* no executed trade, and its position, inventory and energy stay as they are.
C10_DeadForGood ==
  [][ /\ DeadAreOut'
      /\ \A a \in Agents :
           ~alive[a] =>
             /\ ~alive'[a]
             /\ position'[a] = position[a]
             /\ inventory'[a] = inventory[a]
             /\ energy'[a] = energy[a]
             /\ step_count'[a] = step_count[a]
             /\ memory'[a] = memory[a]
             /\ (Len(completed_trades') > Len(completed_trades) =>
                   a \notin { completed_trades'[Len(completed_trades')].offerer,
                              completed_trades'[Len(completed_trades')].target })
    ]_vars

\* Phase 2 runs on offers made while a dead agent stood within the trade range
\* of a living one
C10_Witness ==
  /\ pc = "phase2"
  /\ offers # <<>>
  /\ \E a, b \in Agents :
       /\ ~alive[a]
       /\ alive[b]
       /\ energy[a] <= 0
       /\ a \in in_range_dead_or_alive(b, trade_range)

\* C11: a step of a living agent that does not die in it leaves the agent's
\* energy at the energy before minus ENERGY_LOSS_PER_TURN, plus the agent's
\* consumption rate for X exactly when the step ate X; every other step (another
\* agent's turn, an offer, a trade, the replenishing) leaves its energy alone.
C11_EnergyAccounting ==
  [][ \A a \in Agents :
        LET ate_red == last'.agent = a /\ last'.result = "ate red"
            ate_green == last'.agent = a /\ last'.result = "ate green"
            gain == IF ate_red THEN consumption_rates(a).red
                    ELSE IF ate_green THEN consumption_rates(a).green
                    ELSE 0
        IN  IF step_count'[a] # step_count[a]
            THEN (alive[a] /\ alive'[a]) =>
                   /\ last'.agent = a
                   /\ energy'[a] = energy[a] - ENERGY_LOSS_PER_TURN + gain
                   /\ ate_red <=> inventory'[a].red = inventory[a].red - 1
                   /\ ate_green <=> inventory'[a].green = inventory[a].green - 1
            ELSE energy'[a] = energy[a]
    ]_vars

\* an agent has survived a turn by eating: it holds more energy than it began with
C11_Witness ==
  /\ last.agent # 0
  /\ last.result \in {"ate red", "ate green"}
  /\ alive[last.agent]
  /\ energy[last.agent] > INITIAL_ENERGY
  /\ completed_trades # <<>>

\* agent a was processed in the running phase and accepted none of its offers
RejectedAll(a) ==
  /\ \E i \in 1..Len(trading_events) :
        trading_events[i].kind = "REJECTED" /\ trading_events[i].offer.target = a
  /\ \A i \in 1..Len(trading_events) :
        trading_events[i].offer.target = a =>
          trading_events[i].kind \notin {"ACCEPTED", "FAILED"}

\* an offer agent a made was executed in the running phase
OwnOfferExecuted(a) ==
  \E i \in 1..Len(trading_events) :
    trading_events[i].kind = "ACCEPTED" /\ trading_events[i].offer.offerer = a

\* C12: an agent that accepts none of the offers addressed to it (all are
\* rejected) holds at the end of the trading phase what it held at its start.
C12_RejectionLeavesInventory ==
  (pc = "replenish" /\ inventory_at_phase_start # <<>>) =>
    \A a \in Agents :
      RejectedAll(a) => inventory[a] = inventory_at_phase_start[a]

\* C12 as amended: an agent that accepts none of the offers addressed to it,
\* and whose own offer is not executed in the phase, holds at the end of the
\* trading phase (and all through it) what it held at its start.
C12_RejectionAndNoSaleLeaveInventory ==
  (inventory_at_phase_start # <<>>) =>
    \A a \in Agents :
      (RejectedAll(a) /\ ~OwnOfferExecuted(a)) =>
        inventory[a] = inventory_at_phase_start[a]

\* a phase has ended in which an agent rejected what it was offered, made an
\* offer of its own that was not executed, and saw a trade of two others executed
C12_Witness ==
  /\ pc = "replenish"
  /\ inventory_at_phase_start # <<>>
  /\ \E a \in Agents :
       /\ RejectedAll(a)
       /\ ~OwnOfferExecuted(a)
       /\ \E i \in 1..Len(trading_events) :
            trading_events[i].kind = "OFFER" /\ trading_events[i].offer.offerer = a
       /\ \E i \in 1..Len(trading_events) : trading_events[i].kind = "ACCEPTED"
       /\ inventory # inventory_at_phase_start

\* the offers made in the running phase (Phase 1 logs each one)
OffersMade ==
  { trading_events[i].offer :
      i \in { j \in 1..Len(trading_events) : trading_events[j].kind = "OFFER" } }

\* the events of the given kind about offer o
EventsOf(kind, o, events) ==
  { i \in 1..Len(events) : events[i].kind = kind /\ events[i].offer = o }

\* C13: when the offer an agent accepts is executed, every other offer made to
\* that agent in the phase is out of the pending set, logged as cancelled, and
\* no second offer to the same agent is executed in the phase.
C13_RivalOffersCancelled ==
  [][ Len(completed_trades') > Len(completed_trades) =>
        LET o == completed_trades'[Len(completed_trades')] IN
        /\ \A r \in OffersMade :
             (r.target = o.target /\ r # o) =>
               /\ ~InList(r, offers')
               /\ EventsOf("CANCELLED", r, trading_events') # {}
               /\ EventsOf("ACCEPTED", r, trading_events') = {}
        /\ \A i \in 1..Len(completed_trades) :
             completed_trades[i].step = o.step =>
               completed_trades[i].target # o.target
    ]_vars

\* in standard mode a trade was executed while a second offer to the same agent,
\* which that agent could have covered as well, was cancelled
C13_Witness ==
  /\ rand_mode = 0
  /\ inventory_at_phase_start # <<>>
  /\ \E o, r \in OffersMade :
       /\ r.target = o.target
       /\ r.offerer # o.offerer
       /\ EventsOf("ACCEPTED", o, trading_events) # {}
       /\ EventsOf("CANCELLED", r, trading_events) # {}
       /\ consumption_rates(o.target).red = consumption_rates(o.target).green
       /\ inventory_at_phase_start[o.target].red >= r.request_red + o.request_red
       /\ inventory_at_phase_start[o.target].green >= r.request_green + o.request_green

\* process_trading_phase is running (between its first line and its return)
InTradingPhase == pc \in {"phase1", "shuffle", "phase2"}

\* C14: whenever process_trading_phase has returned the pending offers are
\* none, so no offer of a step is pending when the next step starts.
C14_NoCarryOver ==
  /\ ~InTradingPhase => offers = <<>>
  /\ \A i \in 1..Len(offers) : offers[i].step = step

\* a phase has returned in which an offer was never decided: it was still
\* pending, neither executed, failed, rejected nor cancelled, when the loop ended
C14_Witness ==
  /\ pc = "replenish"
  /\ offers = <<>>
  /\ \E o \in OffersMade :
       \A kind \in {"ACCEPTED", "FAILED", "REJECTED", "CANCELLED"} :
         EventsOf(kind, o, trading_events) = {}

\* C15: whatever the configured capacity N >= 0, after any number of add_memory
\* calls an agent's memory holds the min(N, total) entries appended last, in
\* the order they were appended.
C15_MemoryCapacity ==
  \A a \in Agents :
    /\ Len(memory[a]) <= memory_size
    /\ Len(memory[a]) = Min(memory_size, step_count[a])
    /\ \A i \in 1..Len(memory[a]) :
         memory[a][i].step = step_count[a] - Len(memory[a]) + i

\* agent a prefers one resource: its two consumption rates differ
Leaning(a) == consumption_rates(a).red # consumption_rates(a).green

\* what agent a holds of the resource it would give away (the one it prefers less)
GiveAway(a) ==
  IF consumption_rates(a).red > consumption_rates(a).green
  THEN inventory[a].green ELSE inventory[a].red

\* o is the offer of agent a, giving `amount` of what a prefers less and asking
\* one unit of what it prefers, to an agent in its trade range
StandardOffer(o, a, amount) ==
  /\ o.offerer = a
  /\ o.target \in get_agents_in_trade_range(a, trade_range)
  /\ o.step = step
  /\ IF consumption_rates(a).red > consumption_rates(a).green
     THEN /\ o.offer_red = 0 /\ o.offer_green = amount
          /\ o.request_red = 1 /\ o.request_green = 0
     ELSE /\ o.offer_red = amount /\ o.offer_green = 0
          /\ o.request_red = 0 /\ o.request_green = 1

\* Phase 1 is at a living agent of the standard mode that prefers one resource
\* and has a living agent in its trade range
AskedLeaningAgent ==
  /\ pc = "phase1"
  /\ rand_mode = 0
  /\ alive[idx]
  /\ Leaning(idx)
  /\ get_agents_in_trade_range(idx, trade_range) # {}

\* C16: such an agent makes an offer whatever it holds: min(1, holding) of the
\* resource it gives away, so 0 when it holds none, for 1 of the preferred one.
C16_OffersEvenWithNothing ==
  [][ AskedLeaningAgent =>
        /\ Len(offers') = Len(offers) + 1
        /\ StandardOffer(offers'[Len(offers')], idx, Min(1, GiveAway(idx)))
    ]_vars

\* C16 as amended: such an agent makes an offer exactly when it holds at least
\* one unit of the resource it gives away, and the offer is 1 of it for 1 of
\* the preferred one; holding none it makes no offer.
C16_OffersOnlyWhatItHolds ==
  [][ AskedLeaningAgent =>
        IF GiveAway(idx) > 0
        THEN /\ Len(offers') = Len(offers) + 1
             /\ StandardOffer(offers'[Len(offers')], idx, 1)
             /\ trading_events' =
                  Append(trading_events, Event("OFFER", offers'[Len(offers')]))
        ELSE offers' = offers /\ trading_events' = trading_events
    ]_vars

\* Phase 1 has passed a leaning agent of the standard mode that holds none of
\* the resource it would give away and has neighbours: it made no offer, while
\* another agent did
C16_Witness ==
  /\ pc \in {"phase1", "shuffle"}
  /\ rand_mode = 0
  /\ offers # <<>>
  /\ \E a \in Agents :
       /\ (a < idx \/ pc = "shuffle")
       /\ alive[a]
       /\ Leaning(a)
       /\ GiveAway(a) = 0
       /\ get_agents_in_trade_range(a, trade_range) # {}
       /\ \A o \in OffersMade : o.offerer # a

\* the offers agent a has added in the running phase, as positions in the log
OffersBy(a) ==
  { i \in 1..Len(trading_events) :
      trading_events[i].kind = "OFFER" /\ trading_events[i].offer.offerer = a }

\* C17: in the standard mode an agent adds at most one offer to the pending
\* set in a trading phase, and an agent whose two rates are equal adds none.
C17_OneOfferAtMost ==
  rand_mode = 0 =>
    \A a \in Agents :
      /\ Cardinality(OffersBy(a)) <= 1
      /\ Cardinality({ i \in 1..Len(offers) : offers[i].offerer = a }) <= 1
      /\ ~Leaning(a) => OffersBy(a) = {}

\* Phase 1 of the standard mode is over: two agents have made their offer, and
\* an agent of equal rates, alive, in range of another and holding both
\* resources, has made none
C17_Witness ==
  /\ pc = "shuffle"
  /\ rand_mode = 0
  /\ \E a, b \in Agents : a # b /\ OffersBy(a) # {} /\ OffersBy(b) # {}
  /\ \E a \in Agents :
       /\ ~Leaning(a)
       /\ alive[a]
       /\ inventory[a].red > 0 /\ inventory[a].green > 0
       /\ get_agents_in_trade_range(a, trade_range) # {}
       /\ OffersBy(a) = {}

\* a coordinate brought back into [0, size-1]
Clamped(v) == IF v < 0 THEN 0 ELSE IF v > GRID_SIZE - 1 THEN GRID_SIZE - 1 ELSE v

\* one cell from p in direction d (up and down along the first coordinate,
\* left and right along the second), clamped
MoveTarget(d, p) ==
  << Clamped(p[1] + (IF d = "up" THEN -1 ELSE IF d = "down" THEN 1 ELSE 0)),
     Clamped(p[2] + (IF d = "left" THEN -1 ELSE IF d = "right" THEN 1 ELSE 0)) >>

\* C18: a step whose action is `move <direction>` moves the agent to the
\* clamped target exactly when the target is not its own cell and no other
\* living agent stands on it; otherwise the agent stays and the outcome is
\* "move blocked: other agent or wall".  Nobody else moves.
C18_MoveOrBlocked ==
  [][ (/\ step_count' # step_count
       /\ last'.action \in { <<"move", d>> : d \in Directions })
      => LET a == last'.agent
             target == MoveTarget(last'.action[2], position[a])
             free == /\ target # position[a]
                     /\ \A b \in Agents \ {a} : alive[b] => position[b] # target
         IN  /\ IF free
                THEN position'[a] = target /\ last'.result = "moved"
                ELSE /\ position'[a] = position[a]
                     /\ last'.result = "move blocked: other agent or wall"
             /\ \A b \in Agents \ {a} : position'[b] = position[b]
    ]_vars

\* an agent on the top row has just answered `move up`: the clamped target is
\* its own cell, it has stayed, and the outcome is the blocked one
C18_Witness ==
  /\ last.agent # 0
  /\ last.action = <<"move", "up">>
  /\ position[last.agent][1] = 0
  /\ MoveTarget("up", position[last.agent]) = position[last.agent]
  /\ last.result = "move blocked: other agent or wall"

\* the offers of the list offs that agent a would accept under the standard
\* rule, as list positions: a holds what is requested, and what is offered is
\* of the resource a prefers (anything, if a prefers none)
Acceptable(a, offs) ==
  { i \in 1..Len(offs) :
      /\ inventory[a].red >= offs[i].request_red
      /\ inventory[a].green >= offs[i].request_green
      /\ consumption_rates(a).red > consumption_rates(a).green => offs[i].offer_red > 0
      /\ consumption_rates(a).green > consumption_rates(a).red => offs[i].offer_green > 0 }

\* C19: in the standard mode the receiver Phase 2 processes accepts the first
\* acceptable offer of its list, which is then executed or fails; if no offer
\* is acceptable it accepts nothing and every offer of its list is rejected
\* and leaves the pending set.
C19_StandardAcceptance ==
  [][ (pc = "phase2" /\ agents_with_offers # <<>> /\ rand_mode = 0) =>
        LET a == Head(agents_with_offers).agent
            offs == Head(agents_with_offers).offers
            n == Len(trading_events)
        IN  IF Acceptable(a, offs) = {}
            THEN /\ trading_events' = trading_events \o
                      [i \in 1..Len(offs) |-> [kind |-> "REJECTED", offer |-> offs[i]]]
                 /\ \A i \in 1..Len(offs) : ~InList(offs[i], offers')
                 /\ inventory' = inventory
                 /\ completed_trades' = completed_trades
            ELSE LET k == CHOOSE i \in Acceptable(a, offs) :
                            \A j \in Acceptable(a, offs) : i <= j
                 IN  /\ Len(trading_events') > n
                     /\ trading_events'[n + 1].offer = offs[k]
                     /\ trading_events'[n + 1].kind \in {"ACCEPTED", "FAILED"}
                     /\ \A i \in (n + 1)..Len(trading_events') :
                          trading_events'[i].kind # "REJECTED"
    ]_vars

\* in the standard mode a receiver that prefers one resource has passed over
\* the first offer made to it and accepted a later one
C19_Witness ==
  /\ rand_mode = 0
  /\ \E i, j, k \in 1..Len(trading_events) :
       /\ i < j /\ j < k
       /\ trading_events[i].kind = "OFFER"
       /\ trading_events[j].kind = "OFFER"
       /\ trading_events[i].offer.target = trading_events[j].offer.target
       /\ trading_events[k].kind = "ACCEPTED"
       /\ trading_events[k].offer = trading_events[j].offer
       /\ Leaning(trading_events[j].offer.target)

\* offer o can be executed on the inventories as they are: both parties are
\* alive, the offerer holds what is offered and the target what is requested
ValidNow(o) ==
  /\ alive[o.offerer] /\ alive[o.target]
  /\ inventory[o.offerer].red >= o.offer_red
  /\ inventory[o.offerer].green >= o.offer_green
  /\ inventory[o.target].red >= o.request_red
  /\ inventory[o.target].green >= o.request_green

\* no offer logged FAILED is accepted or fails again later in the phase
FailedOnce ==
  \A i, j \in 1..Len(trading_events) :
    (/\ i < j
     /\ trading_events[i].kind = "FAILED"
     /\ trading_events[j].offer = trading_events[i].offer)
    => trading_events[j].kind \notin {"ACCEPTED", "FAILED"}

\* C20: an accepted offer that is invalid when it is executed fails: no
\* inventory changes, nothing is added to the completed trades, the offer
\* leaves the pending set and is not attempted again in the phase.
C20_FailedTradeDiscarded ==
  [][ (/\ pc = "phase2"
       /\ Len(trading_events') > Len(trading_events)
       /\ trading_events'[Len(trading_events) + 1].kind \in {"ACCEPTED", "FAILED"})
      => LET e == trading_events'[Len(trading_events) + 1] IN
         /\ e.kind = "FAILED" <=> ~ValidNow(e.offer)
         /\ e.kind = "FAILED" =>
              /\ inventory' = inventory
              /\ completed_trades' = completed_trades
              /\ ~InList(e.offer, offers')
              /\ Len(trading_events') = Len(trading_events) + 1
         /\ FailedOnce'
    ]_vars

\* an accepted offer has failed because its offerer no longer holds what it
\* offered, and the phase went on to another receiver after it
C20_Witness ==
  \E i \in 1..Len(trading_events) :
    /\ trading_events[i].kind = "FAILED"
    /\ i < Len(trading_events)
    /\ \/ inventory[trading_events[i].offer.offerer].red
            < trading_events[i].offer.offer_red
       \/ inventory[trading_events[i].offer.offerer].green
            < trading_events[i].offer.offer_green

\* C21: a step of a living agent whose energy the turn's loss brings to <= 0
\* marks it dead and returns "ran out of energy": the DecisionPolicy is not
\* asked, no memory entry is appended, and no position, inventory or cell
\* changes.  An agent dies in no other way.
C21_DeathWithoutProcessing ==
  [][ /\ (pc = "act" /\ alive[idx] /\ energy[idx] - ENERGY_LOSS_PER_TURN <= 0) =>
           /\ ~alive'[idx]
           /\ step_count'[idx] = step_count[idx] + 1
           /\ energy'[idx] = energy[idx] - ENERGY_LOSS_PER_TURN
           /\ last'.agent = idx
           /\ last'.result = "ran out of energy"
           /\ last'.requests = 0
           /\ last'.response = <<>>
           /\ last'.raised = "none"
           /\ pc' # "crashed"
           /\ memory' = memory
           /\ position' = position
           /\ inventory' = inventory
           /\ grid' = grid
      /\ \A a \in Agents :
           (alive[a] /\ ~alive'[a]) =>
             (pc = "act" /\ idx = a /\ energy[a] - ENERGY_LOSS_PER_TURN <= 0)
    ]_vars

\* an agent of the standard mode has just died holding both resources on a cell
\* with a marker, after steps it has a memory entry of
C21_Witness ==
  /\ rand_mode = 0
  /\ last.agent # 0
  /\ last.result = "ran out of energy"
  /\ ~alive[last.agent]
  /\ energy[last.agent] <= 0
  /\ inventory[last.agent].red > 0 /\ inventory[last.agent].green > 0
  /\ grid[position[last.agent]] # "empty"
  /\ memory[last.agent] # <<>>
  /\ memory[last.agent][Len(memory[last.agent])].step < step_count[last.agent]

\* the units of resource kind k the first n agents of the roster hold
RECURSIVE Held(_, _, _)
Held(k, inv, n) == IF n = 0 THEN 0 ELSE inv[n][k] + Held(k, inv, n - 1)

\* the units of resource kind k in the run: on the cells and in the inventories
Units(k, g, inv) ==
  Cardinality({ c \in Cells : g[c] = k }) + Held(k, inv, num_agents)

\* C22: a step whose action is `collect`, on a cell holding red or green, adds
\* one to that count of the agent and empties the cell (the unit moves from
\* the grid to the agent, so a second collect finds nothing); on an empty
\* cell it changes no inventory and no cell, yields "nothing to collect" and
\* sets no retry hint.
C22_CollectMovesUnit ==
  [][ (step_count' # step_count /\ last'.action = <<"collect">>) =>
        LET a == last'.agent
            p == position[a]
            k == grid[p]
        IN  /\ position' = position
            /\ \A b \in Agents \ {a} : inventory'[b] = inventory[b]
            /\ \A c \in Cells \ {p} : grid'[c] = grid[c]
            /\ IF k \in {"red", "green"}
               THEN /\ inventory'[a][k] = inventory[a][k] + 1
                    /\ \A other \in {"red", "green"} \ {k} :
                         inventory'[a][other] = inventory[a][other]
                    /\ grid'[p] = "empty"
                    /\ last'.result = "collected"
                    /\ Units("red", grid', inventory') = Units("red", grid, inventory)
                    /\ Units("green", grid', inventory') =
                         Units("green", grid, inventory)
               ELSE /\ inventory' = inventory
                    /\ grid' = grid
                    /\ last'.result = "nothing to collect"
                    /\ last'.retry = "none"
                    /\ last'.requests = 1
    ]_vars

\* an agent has just found nothing to collect on the cell where another agent,
\* dead since, collected the marker in its only turn
C22_Witness ==
  /\ last.agent # 0
  /\ last.action = <<"collect">>
  /\ last.result = "nothing to collect"
  /\ grid[position[last.agent]] = "empty"
  /\ \E b \in Agents \ {last.agent} :
       /\ ~alive[b]
       /\ position[b] = position[last.agent]
       /\ \A f \in InitialPositions : position[b] = f[b]
       /\ \A g \in InitialGrids : g[position[b]] # "empty"
       /\ inventory[b].red + inventory[b].green = INITIAL_RED + INITIAL_GREEN + 1

\* the other resource kind
OtherKind(k) == IF k = "red" THEN "green" ELSE "red"

\* C23: a step whose action is `eat red` or `eat green` succeeds exactly when
\* the acting agent holds at least one unit of that kind: it then loses exactly
\* one unit of it, keeps its count of the other kind and gains its rate for the
\* kind eaten.  With a count of 0 the attempt fails, the policy was asked once
\* and not again, and nothing changes but the energy lost for the turn.
C23_EatNeedsStock ==
  [][ (step_count' # step_count
         /\ last'.action \in { <<"eat", "red">>, <<"eat", "green">> }) =>
        LET a == last'.agent
            k == last'.action[2]
            ate == last'.result \in { "ate red", "ate green" }
        IN  /\ ate <=> inventory[a][k] > 0
            /\ last'.requests \in {0, 1}
            /\ position' = position
            /\ grid' = grid
            /\ \A b \in Agents \ {a} : inventory'[b] = inventory[b] /\ energy'[b] = energy[b]
            /\ IF inventory[a][k] > 0
               THEN /\ inventory'[a][k] = inventory[a][k] - 1
                    /\ inventory'[a][OtherKind(k)] = inventory[a][OtherKind(k)]
                    /\ last'.result = (IF k = "red" THEN "ate red" ELSE "ate green")
                    /\ energy'[a] = energy[a] - ENERGY_LOSS_PER_TURN
                                      + consumption_rates(a)[k]
               ELSE /\ inventory' = inventory
                    /\ energy'[a] = energy[a] - ENERGY_LOSS_PER_TURN
                    /\ last'.requests = 1
                    /\ last'.result = "failed to act"
                    /\ pc' # "crashed" ]_vars

\* an agent that ate its only red unit in its first turn asks to eat red again
\* in its second turn and fails
C23_Witness ==
  /\ last.action = <<"eat", "red">>
  /\ last.result = "failed to act"
  /\ last.requests = 1
  /\ step_count[last.agent] = 2
  /\ inventory[last.agent] = [red |-> INITIAL_RED - 1, green |-> INITIAL_GREEN]
  /\ energy[last.agent] = INITIAL_ENERGY - 2 * ENERGY_LOSS_PER_TURN
                            + consumption_rates(last.agent).red
  /\ completed_trades = <<>>

\* a decision of Phase 2 is on record for the running trading phase
DecisionMade ==
  \E i \in 1..Len(trading_events) : trading_events[i].kind # "OFFER"

\* a marker appears on a cell that had none
Replenished == \E c \in Cells : grid[c] = "empty" /\ grid'[c] # "empty"

\* C24: the phases of a step never overlap.  An agent acts only when no offer
\* is pending and the agents before it in the roster have acted in this step
\* while those after it have not; an offer is added only when every living
\* agent has acted in this step and no acceptance decision has been taken; an
\* acceptance decision adds no offer; and the cells are replenished only when
\* every living agent has acted and the trading phase has left no offer and no
\* receiver to ask.
C24_PhasesInOrder ==
  [][ /\ (step_count' # step_count) =>
           /\ offers = <<>> /\ offers' = <<>>
           /\ agents_with_offers = <<>> /\ trading_events = <<>>
           /\ ~Replenished
           /\ \A b \in Agents : alive[b] =>
                step_count[b] = (IF b < last'.agent THEN step ELSE step - 1)
      /\ (Len(offers') > Len(offers)) =>
           /\ \A a \in Agents : alive[a] => step_count[a] = step
           /\ ~DecisionMade
           /\ agents_with_offers = <<>> /\ agents_with_offers' = <<>>
           /\ inventory' = inventory /\ completed_trades' = completed_trades
           /\ grid' = grid
      /\ (Len(agents_with_offers') < Len(agents_with_offers)
            \/ completed_trades' # completed_trades) =>
           /\ Len(offers') <= Len(offers)
           /\ \A a \in Agents : alive[a] => step_count[a] = step
           /\ step_count' = step_count
           /\ grid' = grid
      /\ Replenished =>
           /\ \A a \in Agents : alive[a] => step_count[a] = step
           /\ offers = <<>> /\ agents_with_offers = <<>>
           /\ inventory' = inventory /\ completed_trades' = completed_trades
           /\ step % REPLENISH_INTERVAL = 0 ]_vars

\* a step in which an agent acted, a trade of this step was executed and the
\* replenishment is due next
C24_Witness ==
  /\ pc = "replenish"
  /\ step % REPLENISH_INTERVAL = 0
  /\ \E a \in Agents : alive[a] /\ step_count[a] = step
  /\ \E i \in 1..Len(completed_trades) : completed_trades[i].step = step
  /\ \E c \in Cells : grid[c] = "empty"

\* the four move actions of the grammar
MoveActions == { <<"move", d>> : d \in Directions }

\* C25: every position is a cell of the grid, and a position changes only in
\* the step of its own agent, by one of the four move actions of the grammar
\* resolving as moved: collect, eat, do nothing, a blocked move, an action
\* outside the grammar, a death and every step of the trading phase leave all
\* positions as they are.
C25_OnlyAMoveChangesPosition ==
  [][ /\ \A a \in Agents : position[a] \in Cells /\ position'[a] \in Cells
      /\ \A a \in Agents : position'[a] # position[a] =>
           /\ step_count'[a] = step_count[a] + 1
           /\ alive'[a]
           /\ last'.agent = a
           /\ last'.action \in MoveActions
           /\ last'.result = "moved"
           /\ position'[a] = new_pos(last'.action[2], position[a])
           /\ \A b \in Agents \ {a} : position'[b] = position[b] ]_vars

\* offer o is between two living, different agents no further apart than the
\* trade range
InReach(o) ==
  /\ alive[o.offerer]
  /\ alive[o.target]
  /\ o.target # o.offerer
  /\ calculate_manhattan_distance(position[o.offerer], position[o.target])
       <= trade_range

\* every pending offer is within reach
PendingInReach == \A i \in 1..Len(offers) : InReach(offers[i])

\* C26: an offer is added to the pending list only by a living offerer for a
\* living target other than itself that is, at that moment, at a Manhattan
\* distance of at most the trade range; every pending offer is such an offer.
\* With a trade range <= 0 no offer, no trading event and no executed trade
\* ever exists, and inventories change only in an agent's own action.
C26_OffersWithinReach ==
  [][ /\ (Len(offers') > Len(offers)) =>
           /\ trade_range > 0
           /\ Len(offers') = Len(offers) + 1
           /\ SubSeq(offers', 1, Len(offers)) = offers
           /\ InReach(offers'[Len(offers')])
           /\ offers'[Len(offers')].step = step
      /\ PendingInReach /\ PendingInReach'
      /\ trade_range <= 0 =>
           /\ offers' = <<>>
           /\ agents_with_offers' = <<>>
           /\ trading_events' = <<>>
           /\ completed_trades' = <<>>
           /\ pc' \notin {"phase1", "shuffle", "phase2"}
           /\ (inventory' # inventory => step_count' # step_count) ]_vars

\* an offer is pending while a third living agent, further away from the
\* offerer than the trade range, was not chosen as its target
C26_Witness ==
  /\ offers # <<>>
  /\ LET o == offers[1] IN
     \E b \in Agents \ {o.offerer, o.target} :
       /\ alive[b]
       /\ calculate_manhattan_distance(position[o.offerer], position[b])
            > trade_range

\* C27: between any two calls of the run, and so at the end of every step, an
\* agent is alive exactly when its energy is above 0 (the initial energy is
\* positive and no consumption rate is negative).
C27_AliveIffEnergy ==
  /\ INITIAL_ENERGY > 0
  /\ \A a \in 1..NUM_AGENTS :
       consumption_rates(a).red >= 0 /\ consumption_rates(a).green >= 0
  /\ \A a \in Agents : alive[a] <=> energy[a] > 0

\* the end of the second step: one agent has died of the turns' losses with
\* no energy left, another has eaten and lives on
C27_Witness ==
  /\ pc = "replenish"
  /\ step = 2
  /\ \E a, b \in Agents :
       /\ ~alive[a] /\ energy[a] = INITIAL_ENERGY - 2 * ENERGY_LOSS_PER_TURN
       /\ step_count[a] = 2
       /\ alive[b] /\ energy[b] > INITIAL_ENERGY - 2 * ENERGY_LOSS_PER_TURN
       /\ step_count[b] = 2
====
